---- MODULE Spec2Model ----
(***************************************************************************)
(* A model of jam_session.py: the construction of a jam session            *)
(* (the reading of the arguments, lc_to_lk, lk_to_pg, the FittingUnits,    *)
(* the Nyquist check) followed by batch invocations (jam.__call__), with   *)
(* the process-wide failure ledger failed_lk_query.                        *)
(*                                                                         *)
(* Python containers are 0-based, and so are the functions modelling them: *)
(* a DataFrame is a function from its index labels to its rows, a list a   *)
(* function from 0..n-1 to its items.  The calls to the external           *)
(* collaborators (np.genfromtxt/arr_to_lk, query_lightkurve, sort_lc,      *)
(* lk_to_pg, star(), star.__call__, warnings.warn) made for the current    *)
(* session are recorded, in order, in the history variable trace.  The     *)
(* collaborators np.genfromtxt, sort_lc, lk_to_pg and star() are taken to  *)
(* return; query_lightkurve and star.__call__ return or raise.             *)
(***************************************************************************)
EXTENDS Integers, Sequences, FiniteSets, TLC

VARIABLES
    args,             \* the arguments of jam(...): how the input is given
    table,            \* the input table the arguments describe (never changed)
    vardf,            \* the working DataFrame: index label -> row
    i,                \* lc_to_lk's loop index (line 45)
    failed_lk_query,  \* the failure ledger: index key -> 'error' message
    stars,            \* self.stars: slot -> FittingUnit or None
    callNo,           \* number of jam.__call__ invocations begun on the session
    ci,               \* jam.__call__'s loop index (line 161)
    pc,               \* the position of the program
    error,            \* the exception that propagated out, or "none"
    csv,              \* failed_lk_targets.csv: whether written, and its rows
    sess,             \* number of jam(...) calls made in the process
    held,             \* the other jam objects of the process, constructed earlier
    trace             \* the calls made to the collaborators, in order

vars == <<args, table, vardf, i, failed_lk_query, stars, callNo, ci, pc, error,
          csv, sess, held, trace>>

\* Most rows of a table holding any kind of cell.
MaxRows == 2
\* Most rows of a table holding the ordinary cells only.
MaxLongRows == 3
\* Most batch invocations made on one session.
MaxCalls == 3
\* Most sessions constructed in one process.
MaxSessions == 2
\* Most rows of a table in a process that constructs several sessions.
MaxSharedRows == 1

\* The ID column: row r of the table holds IDS[r + 1].
IDS == <<"KIC1", "KIC2", "KIC3", "KIC4", "KIC5">>
\* str(exc) of the exception a collaborator raises for a star: each star's
\* failure carries a message of its own.
StrExc(what, id) == <<what, id>>
NoExc == <<>>
\* numax of a row; every spectrum's last frequency f[-1] is 2.
NumaxVals == {2, 3}

----------------------------------------------------------------------------
(* Python values: type is the class, bool is what bool(x) gives ("True",    *)
(* "False", or the "ValueError" it raises), hasmod says whether the         *)
(* attribute x.__module__ exists (instances of builtin types have none)     *)
(* and module is its value.                                                 *)

LkModule == "lightkurve.lightcurve"

None == [type |-> "NoneType", bool |-> "False", hasmod |-> FALSE, module |-> ""]
\* A falsy value that is neither None nor a str: 0, [], {}, an empty series.
FalsyValue(id) ==
    [type |-> "falsy", bool |-> "False", hasmod |-> FALSE, module |-> "", of |-> id]
FilePath(id) ==
    [type |-> "str", bool |-> "True", hasmod |-> FALSE, module |-> "", of |-> id]
LightCurve(id, src, sorted) ==
    [type |-> "LightCurve", bool |-> "True", hasmod |-> TRUE, module |-> LkModule,
     of |-> id, src |-> src, sorted |-> sorted]
\* A truthy instance of a builtin type: 5, float('nan'), [1, 2], (t, d).
BuiltinValue(id) ==
    [type |-> "builtin", bool |-> "True", hasmod |-> FALSE, module |-> "", of |-> id]
\* A truthy instance of a class of another module.
ForeignObject(id) ==
    [type |-> "object", bool |-> "True", hasmod |-> TRUE, module |-> "elsewhere",
     of |-> id]
\* A value whose truth value is ambiguous: a numpy array of two elements or
\* more, a pandas Series.  bool(x) raises before anything else of it is read.
AmbiguousValue(id) ==
    [type |-> "array", bool |-> "ValueError", hasmod |-> FALSE, module |-> "", of |-> id]
Periodogram(id, src) ==
    [type |-> "Periodogram", bool |-> "True", hasmod |-> TRUE,
     module |-> "lightkurve.periodogram", of |-> id, src |-> src, f_last |-> 2]

\* isinstance(x, str), line 46
IsStr(x) == x.type = "str"
\* bool(x), lines 50, 51, 74: its value, or the ValueError it raises.
Bool(x) == x.bool
\* x.__module__ == lk.lightcurve.__name__, line 67: the comparison's value,
\* or the AttributeError of reading __module__ where there is none.
IsLightCurve(x) ==
    IF ~x.hasmod THEN "AttributeError"
    ELSE IF x.module = LkModule THEN "True" ELSE "False"

Len0(f) == Cardinality(DOMAIN f)
\* The items of a 0-based list, as a sequence.
SeqOf(f) == [k \in 1..Len0(f) |-> f[k - 1]]

Ev(op, id, exc, call) == [op |-> op, ID |-> id, ok |-> (exc = NoExc), exc |-> exc, call |-> call]

----------------------------------------------------------------------------
(* The input *)

\* What a cell of the timeseries column may hold, and of the psd column.
TimeseriesInput(kind, id) ==
    CASE kind = "path" -> FilePath(id)
      [] kind = "lightcurve" -> LightCurve(id, "given", FALSE)
      [] kind = "falsy" -> FalsyValue(id)
      [] kind = "builtin" -> BuiltinValue(id)
      [] kind = "object" -> ForeignObject(id)
      [] kind = "ambiguous" -> AmbiguousValue(id)
      [] OTHER -> None
PsdInput(kind, id) ==
    CASE kind = "given" -> Periodogram(id, "given")
      [] kind = "falsy" -> FalsyValue(id)
      [] kind = "ambiguous" -> AmbiguousValue(id)
      [] OTHER -> None

\* Every kind of cell, with the numax that is above the last frequency; the
\* ordinary cells; and those of them with that numax.  A power spectrum of
\* ambiguous truth value is given where lc_to_lk tests it or raises before:
\* what lk_to_pg and star() of pbjam do with one is not this module's.
AllCells ==
    {c \in [timeseries : {"none", "falsy", "path", "lightcurve", "builtin", "object",
                          "ambiguous"},
            psd : {"none", "falsy", "given", "ambiguous"},
            numax : {n \in NumaxVals : n > 2}] :
        c.psd = "ambiguous" => c.timeseries \notin {"path", "lightcurve"}}
PlainCells == [timeseries : {"none", "path", "lightcurve"},
               psd : {"none", "given"}, numax : NumaxVals]
LongCells == {c \in PlainCells : c.numax > 2}

Row(r, c) ==
    [ID |-> IDS[r + 1],
     timeseries |-> TimeseriesInput(c.timeseries, IDS[r + 1]),
     psd |-> PsdInput(c.psd, IDS[r + 1]),
     numax |-> c.numax]

\* A table of n rows, identifiers unique, from the cells chosen for its rows.
Table(n, c) == [r \in 0..(n - 1) |-> Row(r, c[r])]

\* What an argument of jam(...) may hold: nothing (None), something truthy,
\* or something whose truth value is ambiguous (a numpy array of two
\* elements or more).
ArgInput(kind) ==
    CASE kind = "given" -> BuiltinValue("")
      [] kind = "ambiguous" -> AmbiguousValue("")
      [] OTHER -> None

\* The arguments of jam(...).  dictlike: of an accepted type (line 95) and
\* converting to a DataFrame; of an accepted type and rejected by
\* DataFrame.from_records; or of no accepted type (None, a number).  ID: the
\* argument ID.  params: the first of numax, dnu, teff, bp_rp whose bool() is
\* not False, None if there is none.  With no dictlike and an ID, the table
\* is made of ID and the parameters, which are then given.
Args ==
    {a \in [dictlike : {"dictlike", "unconvertible", "other"},
            ID : {"none", "given", "ambiguous"},
            params : {"none", "given", "ambiguous"}] :
        (a.dictlike = "other" /\ a.ID = "given") => a.params = "given"}

\* any(xs), line 106: bool() of the items in turn, up to the first that is
\* not False.
RECURSIVE AnyOf(_)
AnyOf(xs) ==
    IF xs = <<>> THEN "False"
    ELSE IF Bool(Head(xs)) = "False" THEN AnyOf(Tail(xs))
    ELSE Bool(Head(xs))

\* any([ID, numax, dnu, teff, bp_rp]), line 106
AnyParams(a) == AnyOf(<<ArgInput(a.ID), ArgInput(a.params)>>)

\* The arguments name a table: a dictlike that converts, or an ID.
HasTable(a) == a.dictlike = "dictlike" \/ (a.dictlike = "other" /\ a.ID = "given")

\* The plain call: a dictlike and nothing else.
PlainArgs == [dictlike |-> "dictlike", ID |-> "none", params |-> "none"]

\* The inputs with at most short rows of any cells, given either way, or of
\* ordinary cells of any numax, or with at most long rows of ordinary cells,
\* and the arguments that give no table.
InputOf(a, t, short, long) ==
    \/ /\ HasTable(a)
       /\ \E n \in 0..short : \E c \in [0..(n - 1) -> AllCells] : t = Table(n, c)
    \/ /\ a = PlainArgs
       /\ \/ \E n \in 0..short : \E c \in [0..(n - 1) -> PlainCells] : t = Table(n, c)
          \/ \E n \in 0..long : \E c \in [0..(n - 1) -> LongCells] : t = Table(n, c)
    \/ /\ ~HasTable(a)
       /\ t = <<>>

\* The inputs of the first session of a process, and of a later one.  (A
\* later one is constructed when the tables before it were short too.)
IsInput(a, t) == InputOf(a, t, MaxRows, MaxLongRows)
IsLaterInput(a, t) == InputOf(a, t, MaxSharedRows, MaxSharedRows)

\* The module is imported (line 37: the ledger is empty) and jam(...) is called.
Init ==
    /\ args \in Args
    /\ IsInput(args, table)
    /\ vardf = <<>>
    /\ i = 0
    /\ failed_lk_query = <<>>
    /\ stars = <<>>
    /\ callNo = 0
    /\ ci = 0
    /\ pc = "init"
    /\ error = "none"
    /\ csv = [written |-> FALSE, rows |-> <<>>]
    /\ sess = 1
    /\ held = <<>>
    /\ trace = <<>>

----------------------------------------------------------------------------
(* jam.__init__, before lc_to_lk *)

\* Line 95: isinstance(dictlike, (dict, np.recarray, pd.DataFrame, str))
IsDictlike(a) == a.dictlike \in {"dictlike", "unconvertible"}

\* Lines 106-108: the warning about the ignored parameters, when any(...) is
\* True.
ParamsWarning ==
    IF AnyParams(args) = "True" THEN <<Ev("warn_params", "", NoExc, 0)>> ELSE <<>>

\* Lines 93-110: a dictlike that converts; vardf is the organised table.
InitDictlike ==
    /\ pc = "init"
    /\ args.dictlike = "dictlike"
    /\ AnyParams(args) # "ValueError"
    /\ stars' = <<>>
    /\ vardf' = table
    /\ trace' = trace \o ParamsWarning
    /\ pc' = "lc_to_lk"
    /\ UNCHANGED <<args, table, i, failed_lk_query, callNo, ci, error, csv, sess, held>>

\* Lines 93-110: from_records raises TypeError, which is printed; vardf is
\* not bound, and line 110 raises UnboundLocalError.
InitUnconvertible ==
    /\ pc = "init"
    /\ args.dictlike = "unconvertible"
    /\ AnyParams(args) # "ValueError"
    /\ stars' = <<>>
    /\ trace' = trace \o ParamsWarning
    /\ pc' = "raised"
    /\ error' = "UnboundLocalError"
    /\ UNCHANGED <<args, table, vardf, i, failed_lk_query, callNo, ci, csv, sess, held>>

\* Lines 93-106: with a dictlike, converting or not, bool() of a parameter
\* raises ValueError inside any(...); it leaves the constructor.
InitParamsValueError ==
    /\ pc = "init"
    /\ IsDictlike(args)
    /\ AnyParams(args) = "ValueError"
    /\ stars' = <<>>
    /\ pc' = "raised"
    /\ error' = "ValueError"
    /\ UNCHANGED <<args, table, vardf, i, failed_lk_query, callNo, ci, csv, sess, held, trace>>

\* Lines 93, 112-119: ID is truthy; organize_sess_input and format_col make
\* vardf.
InitID ==
    /\ pc = "init"
    /\ ~IsDictlike(args)
    /\ Bool(ArgInput(args.ID)) = "True"
    /\ stars' = <<>>
    /\ vardf' = table
    /\ pc' = "lc_to_lk"
    /\ UNCHANGED <<args, table, i, failed_lk_query, callNo, ci, error, csv, sess, held, trace>>

\* Lines 93, 112: bool(ID) raises ValueError; it leaves the constructor.
InitIDValueError ==
    /\ pc = "init"
    /\ ~IsDictlike(args)
    /\ Bool(ArgInput(args.ID)) = "ValueError"
    /\ stars' = <<>>
    /\ pc' = "raised"
    /\ error' = "ValueError"
    /\ UNCHANGED <<args, table, vardf, i, failed_lk_query, callNo, ci, csv, sess, held, trace>>

\* Lines 93, 95, 112, 124: neither branch binds vardf; line 124 raises
\* UnboundLocalError.
InitNothing ==
    /\ pc = "init"
    /\ ~IsDictlike(args)
    /\ Bool(ArgInput(args.ID)) = "False"
    /\ stars' = <<>>
    /\ pc' = "raised"
    /\ error' = "UnboundLocalError"
    /\ UNCHANGED <<args, table, vardf, i, failed_lk_query, callNo, ci, csv, sess, held, trace>>

----------------------------------------------------------------------------
(* DataFrame operations *)

\* The label of the row at position k.
LabelAt(df, k) ==
    CHOOSE l \in DOMAIN df : Cardinality({m \in DOMAIN df : m < l}) = k

\* A variant of At that writes by position (iat) instead of by label.
AtPosition(df, k, v) ==
    IF k < Cardinality(DOMAIN df)
    THEN [df EXCEPT ![LabelAt(df, k)].timeseries = v]
    ELSE df

\* df.at[label, 'timeseries'] = v
At(df, label, v) == [df EXCEPT ![label].timeseries = v]

\* A variant of Drop that leaves the row in.
DropNothing(df, label) == df

\* df.drop(label)
Drop(df, label) == [l \in DOMAIN df \ {label} |-> df[l]]

\* df.reset_index(): the rows keep their order, the labels become 0..M-1 and
\* the old labels a column 'index'.
ResetIndex(df) ==
    [k \in 0..(Len0(df) - 1) |->
        [ID |-> df[LabelAt(df, k)].ID,
         timeseries |-> df[LabelAt(df, k)].timeseries,
         psd |-> df[LabelAt(df, k)].psd,
         numax |-> df[LabelAt(df, k)].numax,
         index |-> LabelAt(df, k)]]

\* failed_lk_query.at[key, 'error'] = msg: sets the row of that key,
\* adding it when the key is new.
LedgerAt(ledger, key, msg) ==
    [k \in DOMAIN ledger \cup {key} |-> IF k = key THEN msg ELSE ledger[k]]

----------------------------------------------------------------------------
(* lc_to_lk *)

\* Lines 73-77: sort the row's series if the row is still there and its
\* cell is truthy (the cell is a light curve, or the falsy value it was).
SortedDf(df, label) ==
    IF label \in DOMAIN df /\ Bool(df[label].timeseries) = "True"
    THEN At(df, label, [df[label].timeseries EXCEPT !.sorted = TRUE])
    ELSE df

SortedEv(df, label) ==
    IF label \in DOMAIN df /\ Bool(df[label].timeseries) = "True"
    THEN <<Ev("sort_lc", df[label].timeseries.of, NoExc, 0)>>
    ELSE <<>>

InLoop == pc = "lc_to_lk" /\ i < Len0(table)

\* A variant of NeedsQuery that does not look at the psd column.
NeedsQueryIgnoringPsd(row) ==
    /\ ~IsStr(row.timeseries)
    /\ Bool(row.timeseries) = "False"

\* Line 50-53: a remote query is made for the row.
NeedsQuery(row) ==
    /\ ~IsStr(row.timeseries)
    /\ Bool(row.timeseries) = "False"
    /\ Bool(row.psd) = "False"

\* Lines 46, 50, 67: the row reaches the comparison of line 67.
ReachesModuleCheck(row) ==
    /\ ~IsStr(row.timeseries)
    /\ Bool(row.timeseries) = "True"

LoopStep(df, evs) ==
    /\ vardf' = SortedDf(df, i)
    /\ trace' = trace \o evs \o SortedEv(df, i)
    /\ i' = i + 1
    /\ UNCHANGED <<args, table, stars, callNo, ci, pc, error, csv, sess, held>>

\* Lines 46-49: the time series is a file path.
LcToLkFile ==
    /\ InLoop
    /\ IsStr(vardf[i].timeseries)
    /\ LoopStep(At(vardf, i, LightCurve(vardf[i].ID, "file", FALSE)),
                <<Ev("load", vardf[i].ID, NoExc, 0)>>)
    /\ UNCHANGED failed_lk_query

\* Lines 50-52: the time series is falsy, the power spectrum truthy.
LcToLkPsd ==
    /\ InLoop
    /\ ~IsStr(vardf[i].timeseries)
    /\ Bool(vardf[i].timeseries) = "False"
    /\ Bool(vardf[i].psd) = "True"
    /\ LoopStep(vardf, <<>>)
    /\ UNCHANGED failed_lk_query

\* Lines 50, 51: bool() of the time series raises ValueError, or the time
\* series is falsy and bool() of the power spectrum raises it; the error
\* leaves lc_to_lk and the constructor.
LcToLkValueError ==
    /\ InLoop
    /\ ~IsStr(vardf[i].timeseries)
    /\ \/ Bool(vardf[i].timeseries) = "ValueError"
       \/ Bool(vardf[i].timeseries) = "False" /\ Bool(vardf[i].psd) = "ValueError"
    /\ pc' = "raised"
    /\ error' = "ValueError"
    /\ UNCHANGED <<args, table, vardf, i, failed_lk_query, stars, callNo, ci, csv,
                   sess, held, trace>>

\* Lines 53-60: the query returns a light curve.
LcToLkQueryOk ==
    /\ InLoop
    /\ NeedsQuery(vardf[i])
    /\ LoopStep(At(vardf, i, LightCurve(table[i].ID, "query", FALSE)),
                <<Ev("query", table[i].ID, NoExc, 0)>>)
    /\ UNCHANGED failed_lk_query

\* Lines 53-59, 61-65: the query raises; the row is dropped.
LcToLkQueryFail ==
    /\ InLoop
    /\ NeedsQuery(vardf[i])
    /\ LET exc == StrExc("query_lightkurve failed", table[i].ID)
       IN  /\ failed_lk_query' = LedgerAt(failed_lk_query, table[i].ID, exc)
           /\ LoopStep(Drop(vardf, i), <<Ev("query", table[i].ID, exc, 0)>>)

\* Lines 67-68: the time series is a light curve already.
LcToLkSeries ==
    /\ InLoop
    /\ ReachesModuleCheck(vardf[i])
    /\ IsLightCurve(vardf[i].timeseries) = "True"
    /\ LoopStep(vardf, <<>>)
    /\ UNCHANGED failed_lk_query

\* Line 67: the value has no __module__; the AttributeError leaves lc_to_lk
\* and the constructor.
LcToLkAttributeError ==
    /\ InLoop
    /\ ReachesModuleCheck(vardf[i])
    /\ IsLightCurve(vardf[i].timeseries) = "AttributeError"
    /\ pc' = "raised"
    /\ error' = "AttributeError"
    /\ UNCHANGED <<args, table, vardf, i, failed_lk_query, stars, callNo, ci, csv,
                   sess, held, trace>>

\* A variant of LcToLkTypeError that isolates the row as a failed query is.
LcToLkTypeErrorIsolated ==
    /\ InLoop
    /\ ReachesModuleCheck(vardf[i])
    /\ IsLightCurve(vardf[i].timeseries) = "False"
    /\ failed_lk_query' =
           LedgerAt(failed_lk_query, table[i].ID, StrExc("TypeError", table[i].ID))
    /\ LoopStep(Drop(vardf, i), <<>>)

\* Lines 69-70: an object of another module raises TypeError, which nothing
\* catches.
LcToLkTypeError ==
    /\ InLoop
    /\ ReachesModuleCheck(vardf[i])
    /\ IsLightCurve(vardf[i].timeseries) = "False"
    /\ pc' = "raised"
    /\ error' = "TypeError"
    /\ UNCHANGED <<args, table, vardf, i, failed_lk_query, stars, callNo, ci, csv,
                   sess, held, trace>>

\* Lines 79-80: the loop is over.
LcToLkReturn ==
    /\ pc = "lc_to_lk"
    /\ i = Len0(table)
    /\ vardf' = ResetIndex(vardf)
    /\ pc' = "lk_to_pg"
    /\ UNCHANGED <<args, table, i, failed_lk_query, stars, callNo, ci, error, csv,
                   sess, held, trace>>

----------------------------------------------------------------------------
(* jam.__init__, after lc_to_lk *)

\* lk_to_pg(vardf) of pbjam.session: a row without a power spectrum gets the
\* periodogram of its time series, a supplied power spectrum is left alone.
PgOf(row) ==
    IF Bool(row.psd) = "False"
    THEN Periodogram(row.timeseries.of, "computed")
    ELSE row.psd

LkToPg ==
    /\ pc = "lk_to_pg"
    /\ vardf' = [l \in DOMAIN vardf |-> [vardf[l] EXCEPT !.psd = PgOf(vardf[l])]]
    /\ trace' = trace \o [k \in 1..Len0(vardf) |-> Ev("lk_to_pg", vardf[k - 1].ID, NoExc, 0)]
    /\ pc' = "stars"
    /\ UNCHANGED <<args, table, i, failed_lk_query, stars, callNo, ci, error, csv, sess, held>>

\* star(ID=..., pg=..., numax=..., ...), lines 133-139
Star(row) == [type |-> "star", ID |-> row.ID, pg |-> row.psd, numax |-> row.numax]

\* Lines 132-139: one FittingUnit per row, by position.
BuildStars ==
    /\ pc = "stars"
    /\ stars' = [k \in 0..(Len0(vardf) - 1) |-> Star(vardf[k])]
    /\ trace' = trace \o [k \in 1..Len0(vardf) |-> Ev("star", vardf[k - 1].ID, NoExc, 0)]
    /\ pc' = "nyquist"
    /\ UNCHANGED <<args, table, vardf, i, failed_lk_query, callNo, ci, error, csv, sess, held>>

\* A variant of AboveNyquist that also holds at the last frequency.
AtOrAboveNyquist(st) == st.numax >= st.pg.f_last

\* Line 142: st.numax[0] > st.f[-1]
AboveNyquist(st) == st.numax > st.pg.f_last

\* warnings.warn(... % (st.ID)) for the stars above Nyquist, in slot order.
WarnEvents(ss) ==
    LET w == SelectSeq(SeqOf(ss), AboveNyquist)
    IN  [k \in 1..Len(w) |-> Ev("warn", w[k].ID, NoExc, 0)]

\* Lines 141-144: the warnings; the constructor returns.
NyquistCheck ==
    /\ pc = "nyquist"
    /\ trace' = trace \o WarnEvents(stars)
    /\ pc' = "ready"
    /\ UNCHANGED <<args, table, vardf, i, failed_lk_query, stars, callNo, ci, error,
                   csv, sess, held>>

----------------------------------------------------------------------------
(* jam.__call__ *)

\* The key of line 175: the name id is not bound in __call__ nor in the
\* module, so it is the builtin function id, the same object for every star.
\* (DataFrame.at applies a callable key to the frame, which gives
\* id(failed_lk_query), again one value for every star of the process.)
FitFailureKey == "id(failed_lk_query)"

\* There is a jam object: its constructor has returned.
ObjectExists == pc = "ready" \/ (pc = "raised" /\ callNo >= 1)

\* Line 159-161: an invocation begins, on an object whose constructor has
\* returned; an earlier invocation of it may have raised.
CallBegin ==
    /\ ObjectExists
    /\ callNo < MaxCalls
    /\ callNo' = callNo + 1
    /\ ci' = 0
    /\ pc' = "call"
    /\ error' = "none"
    /\ UNCHANGED <<args, table, vardf, i, failed_lk_query, stars, csv, sess, held, trace>>

InCall == pc = "call" /\ ci < Len0(stars)

\* A variant of FitOk that keeps the FittingUnit in its slot.
FitOkKeepsSlot ==
    /\ InCall
    /\ stars[ci] # None
    /\ trace' = Append(trace, Ev("fit", stars[ci].ID, NoExc, callNo))
    /\ ci' = ci + 1
    /\ UNCHANGED <<args, table, vardf, i, failed_lk_query, stars, callNo, pc, error,
                   csv, sess, held>>

\* Lines 162-168: the fit returns; the slot is released.
FitOk ==
    /\ InCall
    /\ stars[ci] # None
    /\ trace' = Append(trace, Ev("fit", stars[ci].ID, NoExc, callNo))
    /\ stars' = [stars EXCEPT ![ci] = None]
    /\ ci' = ci + 1
    /\ UNCHANGED <<args, table, vardf, i, failed_lk_query, callNo, pc, error, csv, sess, held>>

\* A variant of FitRaise without the handler: the exception leaves __call__.
FitRaiseUncaught ==
    /\ InCall
    /\ pc' = "raised"
    /\ error' = "Exception"
    /\ UNCHANGED <<args, table, vardf, i, failed_lk_query, stars, callNo, ci, csv,
                   sess, held, trace>>

\* Lines 162-166, 170-175: st(...) raises and the handler runs. A released
\* slot holds None: calling it raises TypeError, which the handler catches,
\* and st.ID in the handler (line 173) raises AttributeError, which leaves
\* __call__. Otherwise the handler prints and writes the ledger.
FitRaise ==
    /\ InCall
    /\ IF stars[ci] = None
       THEN /\ pc' = "raised"
            /\ error' = "AttributeError"
            /\ UNCHANGED <<failed_lk_query, ci, trace>>
       ELSE /\ LET ex == StrExc("fit failed", stars[ci].ID)
               IN  /\ trace' = Append(trace, Ev("fit", stars[ci].ID, ex, callNo))
                   /\ failed_lk_query' = LedgerAt(failed_lk_query, FitFailureKey, ex)
            /\ ci' = ci + 1
            /\ UNCHANGED <<pc, error>>
    /\ UNCHANGED <<args, table, vardf, i, stars, callNo, csv, sess, held>>

\* Line 161: the loop is over; __call__ returns.
CallReturn ==
    /\ pc = "call"
    /\ ci = Len0(stars)
    /\ pc' = "ready"
    /\ UNCHANGED <<args, table, vardf, i, failed_lk_query, stars, callNo, ci, error,
                   csv, sess, held, trace>>

\* The jam object the program is at, with the history of its construction
\* and invocations.
ThisSession ==
    [args |-> args, table |-> table, vardf |-> vardf, i |-> i, stars |-> stars,
     callNo |-> callNo, ci |-> ci, trace |-> trace]

\* jam(...) is called again in the same process, after a constructor or an
\* invocation has returned or raised: a new session, the same ledger (line 37
\* runs once, at import).  The object constructed before stays.
NewSession ==
    /\ pc \in {"ready", "raised"}
    /\ sess < MaxSessions
    /\ Len0(table) <= MaxSharedRows
    /\ sess' = sess + 1
    /\ held' = IF ObjectExists THEN Append(held, ThisSession) ELSE held
    /\ args' \in Args
    /\ IsLaterInput(args', table')
    /\ vardf' = <<>>
    /\ i' = 0
    /\ stars' = <<>>
    /\ callNo' = 0
    /\ ci' = 0
    /\ pc' = "init"
    /\ error' = "none"
    /\ trace' = <<>>
    /\ UNCHANGED <<failed_lk_query, csv>>

\* The program turns to one of its other jam objects, which it may then
\* invoke (jam.__call__ on self, lines 146-175): self.stars and the ledger
\* are as that object's and the process's operations left them.
OtherSession ==
    /\ pc \in {"ready", "raised"}
    /\ \E k \in 1..Len(held) :
        /\ args' = held[k].args
        /\ table' = held[k].table
        /\ vardf' = held[k].vardf
        /\ i' = held[k].i
        /\ stars' = held[k].stars
        /\ callNo' = held[k].callNo
        /\ ci' = held[k].ci
        /\ trace' = held[k].trace
        /\ held' = IF ObjectExists
                   THEN [held EXCEPT ![k] = ThisSession]
                   ELSE SubSeq(held, 1, k - 1) \o SubSeq(held, k + 1, Len(held))
    /\ pc' = "ready"
    /\ error' = "none"
    /\ UNCHANGED <<failed_lk_query, csv, sess>>

----------------------------------------------------------------------------
(* __main__ *)

\* Line 183: the script's one batch invocation.
MainCall ==
    /\ pc = "ready"
    /\ callNo = 0
    /\ callNo' = 1
    /\ ci' = 0
    /\ pc' = "call"
    /\ UNCHANGED <<args, table, vardf, i, failed_lk_query, stars, error, csv, sess, held, trace>>

\* Lines 185-187: failed_lk_query.to_csv(...) after the invocation returned.
WriteCsv ==
    /\ pc = "ready"
    /\ callNo = 1
    /\ csv' = [written |-> TRUE, rows |-> failed_lk_query]
    /\ pc' = "exit"
    /\ UNCHANGED <<args, table, vardf, i, failed_lk_query, stars, callNo, ci, error,
                   sess, held, trace>>

\* The constructor.
Construct ==
    \/ InitDictlike
    \/ InitUnconvertible
    \/ InitParamsValueError
    \/ InitID
    \/ InitIDValueError
    \/ InitNothing
    \/ LcToLkFile
    \/ LcToLkPsd
    \/ LcToLkValueError
    \/ LcToLkQueryOk
    \/ LcToLkQueryFail
    \/ LcToLkSeries
    \/ LcToLkAttributeError
    \/ LcToLkTypeError
    \/ LcToLkReturn
    \/ LkToPg
    \/ BuildStars
    \/ NyquistCheck

\* The class used as a library: sessions are constructed, up to MaxSessions
\* in the process, and each invoked up to MaxCalls times, in any order.
Next ==
    \/ Construct
    \/ CallBegin
    \/ FitOk
    \/ FitRaise
    \/ CallReturn
    \/ NewSession
    \/ OtherSession

Spec == Init /\ [][Next]_vars

\* The script: one session is constructed, invoked once, and the ledger written.
NextRun ==
    \/ Construct
    \/ MainCall
    \/ FitOk
    \/ FitRaise
    \/ CallReturn
    \/ WriteCsv

SpecRun == Init /\ [][NextRun]_vars

----------------------------------------------------------------------------
(* What the history says *)

Events(op) == SelectSeq(trace, LAMBDA e : e.op = op)
IdsOf(evs) == [k \in 1..Len(evs) |-> evs[k].ID]
IdSet(evs) == {evs[k].ID : k \in 1..Len(evs)}
Failed(evs) == SelectSeq(evs, LAMBDA e : ~e.ok)
Succeeded(evs) == SelectSeq(evs, LAMBDA e : e.ok)
FitsOfCall(c) == SelectSeq(trace, LAMBDA e : e.op = "fit" /\ e.call = c)

\* The exception the arguments make jam.__init__ raise before lc_to_lk
\* (lines 95-124), or "none".
ArgsError ==
    CASE args.dictlike \in {"dictlike", "unconvertible"} /\ args.params = "ambiguous"
             /\ args.ID = "none" -> "ValueError"
      [] args.dictlike \in {"dictlike", "unconvertible"} /\ args.ID = "ambiguous"
             -> "ValueError"
      [] args.dictlike = "unconvertible" /\ args.ID = "given" -> "UnboundLocalError"
      [] args.dictlike = "unconvertible" /\ args.ID = "none" /\ args.params # "ambiguous"
             -> "UnboundLocalError"
      [] args.dictlike = "other" /\ args.ID = "ambiguous" -> "ValueError"
      [] args.dictlike = "other" /\ args.ID = "none" -> "UnboundLocalError"
      [] OTHER -> "none"

\* The exception lc_to_lk raises at a row, or "none".
RaisesAt(row) ==
    IF IsStr(row.timeseries) THEN "none"
    ELSE IF Bool(row.timeseries) = "ValueError" THEN "ValueError"
    ELSE IF Bool(row.timeseries) = "False"
         THEN (IF Bool(row.psd) = "ValueError" THEN "ValueError" ELSE "none")
    ELSE IF IsLightCurve(row.timeseries) = "True" THEN "none"
    ELSE IF IsLightCurve(row.timeseries) = "False" THEN "TypeError"
    ELSE "AttributeError"

\* The table's rows at which lc_to_lk raises, and those of them whose time
\* series is neither a file path, nor empty (falsy), nor a light curve.
FatalRows == {r \in DOMAIN table : RaisesAt(table[r]) # "none"}
UnsupportedRows ==
    {r \in DOMAIN table :
        /\ ~IsStr(table[r].timeseries)
        /\ Bool(table[r].timeseries) # "False"
        /\ table[r].timeseries.type # "LightCurve"}

\* The identifiers of the table, in its order, and those whose query failed.
TableIds == [k \in 1..Len0(table) |-> table[k - 1].ID]
QueryFailedIds == IdSet(Failed(Events("query")))
\* The rows that resolution does not drop, in table order.
SurvivorIds == SelectSeq(TableIds, LAMBDA id : id \notin QueryFailedIds)
\* The identifiers of the FittingUnits built, in slot order.
UnitIds == IdsOf(Events("star"))

\* lc_to_lk has returned.
Resolved == pc \notin {"init", "lc_to_lk"} /\ ~(pc = "raised" /\ callNo = 0)
\* jam.__init__ has built self.stars.
Built == Resolved /\ pc \notin {"lk_to_pg", "stars"}
\* jam.__init__ has returned.
Constructed == Built /\ pc # "nyquist"
\* The batch invocation has returned.
Returned == callNo >= 1 /\ pc \in {"ready", "exit"}

----------------------------------------------------------------------------
(* C1 *)

\* C1: in the batch invocation made on a freshly constructed session, the
\* fits attempted so far are those of the stars before the loop index, each
\* exactly once and in slot order, whatever each fit did; no exception leaves
\* the invocation; the loop can always go on; so when the invocation has
\* returned, every star was fitted exactly once (N fits when none failed).
C1_DriverIsolation ==
    callNo = 1 =>
        /\ pc \in {"call", "ready", "exit"}
        /\ error = "none"
        /\ IdsOf(FitsOfCall(1)) =
               SubSeq(UnitIds, 1, IF pc = "call" THEN ci ELSE Len(UnitIds))
        /\ pc = "call" => ENABLED (FitOk \/ FitRaise \/ CallReturn)

\* A fit raised for the first of three stars, and the two after it were fitted.
C1_Witness ==
    /\ Returned
    /\ Len(FitsOfCall(1)) = 3
    /\ ~FitsOfCall(1)[1].ok
    /\ FitsOfCall(1)[2].ok
    /\ ~FitsOfCall(1)[3].ok

----------------------------------------------------------------------------
(* C2 *)

VardfIds == {vardf[l].ID : l \in DOMAIN vardf}

\* C2: a row whose query raised is in no later stage (not in the DataFrame
\* handed to lk_to_pg, no FittingUnit, no fit), the ledger holds its identifier
\* once, with the message of that exception (also in the file written), the
\* query was made once, and the loop goes on to the rows after it: the
\* constructor raises only before resolution, for its arguments, or in
\* resolution at a row whose time series is unsupported or whose emptiness
\* cannot be tested.
C2_FetchIsolation ==
    /\ \A k \in 1..Len(trace) :
        (trace[k].op = "query" /\ ~trace[k].ok) =>
            /\ trace[k].ID \notin VardfIds
            /\ trace[k].ID \notin IdSet(Events("lk_to_pg"))
            /\ trace[k].ID \notin IdSet(Events("star"))
            /\ trace[k].ID \notin {stars[n].ID : n \in {m \in DOMAIN stars : stars[m] # None}}
            /\ trace[k].ID \notin IdSet(Events("fit"))
            /\ trace[k].ID \in DOMAIN failed_lk_query
            /\ failed_lk_query[trace[k].ID] = trace[k].exc
            /\ csv.written =>
                  (trace[k].ID \in DOMAIN csv.rows /\ csv.rows[trace[k].ID] = trace[k].exc)
            /\ Len(SelectSeq(Events("query"), LAMBDA e : e.ID = trace[k].ID)) = 1
    /\ pc = "lc_to_lk" => ENABLED NextRun
    /\ (pc = "raised" /\ callNo = 0) =>
           IF ArgsError # "none"
           THEN error = ArgsError /\ i = 0 /\ vardf = <<>> /\ Len(Events("query")) = 0
           ELSE error = RaisesAt(table[i]) /\ i \in FatalRows
    /\ Resolved => i = Len0(table)

\* The query of the first row raised and the row after it reached its fit.
C2_Witness ==
    /\ Len(Events("query")) >= 1
    /\ ~Events("query")[1].ok
    /\ Events("query")[1].ID = table[0].ID
    /\ Len(Events("fit")) >= 1
    /\ Events("fit")[1].ID = table[1].ID
    /\ csv.written

----------------------------------------------------------------------------
(* C3 *)

AllFailures == Failed(Events("query")) \o Failed(Events("fit"))

\* C3: the ledger written to failed_lk_targets.csv has exactly one row for
\* each star whose query or fit failed, keyed by the star's identifier and
\* holding its message, and no other row.
C3_LedgerComplete ==
    csv.written =>
        /\ DOMAIN csv.rows = IdSet(AllFailures)
        /\ \A k \in 1..Len(AllFailures) :
               csv.rows[AllFailures[k].ID] = AllFailures[k].exc

----------------------------------------------------------------------------
(* C4 *)

\* C4: no step removes a ledger entry or changes its message, and the ledger
\* has as many rows as failures have been isolated.
C4_LedgerAppendOnly ==
    [][/\ \A k \in DOMAIN failed_lk_query :
             /\ k \in DOMAIN failed_lk_query'
             /\ failed_lk_query'[k] = failed_lk_query[k]
       /\ Cardinality(DOMAIN failed_lk_query') = Len(AllFailures')]_vars

----------------------------------------------------------------------------
(* C5 *)

\* The table row a DataFrame row comes from: its label until reset_index,
\* its 'index' column after.
Origin(l) == IF Resolved THEN vardf[l].index ELSE l

\* C5: every row of the DataFrame is the table row of its origin and holds
\* no series but its own; after reset_index the labels are 0..M-1 and the rows
\* are the survivors in table order; one FittingUnit is built per survivor, in
\* that order, from the survivor's own row; and the fits follow that order.
C5_OrderAfterDrops ==
    /\ \A l \in DOMAIN vardf :
        /\ vardf[l].ID = table[Origin(l)].ID
        /\ vardf[l].timeseries # None => vardf[l].timeseries.of = vardf[l].ID
        /\ vardf[l].psd # None => vardf[l].psd.of = vardf[l].ID
    /\ Resolved =>
        /\ DOMAIN vardf = 0..(Len(SurvivorIds) - 1)
        /\ IdsOf(SeqOf(vardf)) = SurvivorIds
    /\ Built =>
        /\ UnitIds = SurvivorIds
        /\ DOMAIN stars = 0..(Len(SurvivorIds) - 1)
        /\ \A n \in DOMAIN stars : stars[n] # None => stars[n] = Star(vardf[n])
    /\ IdsOf(Events("fit")) =
           SubSeq(SurvivorIds, 1, IF pc = "call" THEN ci ELSE Len(Events("fit")))
    /\ Returned => Len(Events("fit")) = Len(SurvivorIds)

\* Of three rows the middle one was dropped; the other two, the first with a
\* series loaded from a file and the last with a series queried, were fitted.
C5_Witness ==
    /\ Returned
    /\ Len0(table) = 3
    /\ QueryFailedIds = {table[1].ID}
    /\ Len0(vardf) = 2
    /\ vardf[0].timeseries.type = "LightCurve" /\ vardf[0].timeseries.src = "file"
    /\ vardf[1].timeseries.type = "LightCurve" /\ vardf[1].timeseries.src = "query"
    /\ vardf[1].index = 2
    /\ IdsOf(Events("fit")) = <<table[0].ID, table[2].ID>>

----------------------------------------------------------------------------
(* C6 *)

RowOf(id) == table[CHOOSE r \in DOMAIN table : table[r].ID = id]

\* C6: no query is made for a row whose power spectrum is there, whatever its
\* time series; a query is made only for a row with neither, where a field
\* is there when the code's test of it (bool) is true.
C6_NoQueryWithPsd ==
    \A k \in 1..Len(trace) :
        trace[k].op = "query" =>
            /\ Bool(RowOf(trace[k].ID).psd) = "False"
            /\ Bool(RowOf(trace[k].ID).timeseries) = "False"

\* Resolution went past a row with a power spectrum and an empty series,
\* and past a row with neither; the only query made is the one of the latter.
C6_Witness ==
    /\ Resolved
    /\ Len0(table) = 2
    /\ Bool(table[0].psd) = "True" /\ table[0].timeseries = FalsyValue(table[0].ID)
    /\ table[1].psd = None /\ table[1].timeseries = None
    /\ IdsOf(Events("query")) = <<table[1].ID>>

----------------------------------------------------------------------------
(* C7 *)

FirstFatal == CHOOSE r \in FatalRows : \A q \in FatalRows : r <= q

\* C7: a time series that is neither a file path, nor empty (falsy), nor a
\* light curve makes lc_to_lk raise at its row; and resolution never gets
\* past the first row at which lc_to_lk raises: it raises there (TypeError at
\* line 70, AttributeError at line 67 for a value without __module__,
\* ValueError at line 50 or 51 for a value without a truth value), the
\* constructor never returns, no periodogram is computed, no FittingUnit is
\* built and no fit is invoked, and the row is not entered in the ledger.
\* Nothing else makes resolution raise; the constructor raises otherwise
\* only before resolution, for its arguments (lines 106, 110, 112, 124),
\* and then too nothing is built.
C7_UnsupportedFatal ==
    /\ UnsupportedRows \subseteq FatalRows
    /\ FatalRows # {} =>
        /\ pc \in {"init", "lc_to_lk", "raised"}
        /\ i <= FirstFatal
        /\ (pc = "lc_to_lk" /\ i = FirstFatal) =>
               /\ ENABLED (LcToLkTypeError \/ LcToLkAttributeError \/ LcToLkValueError)
               /\ ~ENABLED (LcToLkFile \/ LcToLkPsd \/ LcToLkQueryOk \/
                            LcToLkQueryFail \/ LcToLkSeries \/ LcToLkReturn)
        /\ pc = "raised" =>
               IF ArgsError # "none"
               THEN error = ArgsError /\ i = 0
               ELSE error = RaisesAt(table[FirstFatal]) /\ i = FirstFatal
        /\ stars = <<>>
        /\ Len(Events("lk_to_pg")) = 0 /\ Len(Events("star")) = 0
        /\ Len(Events("fit")) = 0
        /\ callNo = 0
        /\ table[FirstFatal].ID \notin DOMAIN failed_lk_query
    /\ (pc = "raised" /\ callNo = 0) =>
           IF ArgsError # "none"
           THEN error = ArgsError /\ vardf = <<>>
           ELSE FatalRows # {} /\ error \in {"TypeError", "AttributeError", "ValueError"}

\* The second row holds an object of another module: the row before it was
\* dropped after its query raised, and the construction raised TypeError.
C7_Witness ==
    /\ pc = "raised"
    /\ error = "TypeError"
    /\ i = 1
    /\ table[1].timeseries = ForeignObject(table[1].ID)
    /\ DOMAIN failed_lk_query = {table[0].ID}
    /\ Len0(vardf) = 1

----------------------------------------------------------------------------
(* C8 *)

\* The rows of the DataFrame whose numax is above the last frequency of
\* their spectrum.
RowsAboveNyquist == SelectSeq(SeqOf(vardf), LAMBDA row : row.numax > row.psd.f_last)

\* C8: when the constructor has returned, a warning has been emitted for each
\* star whose numax is above its last frequency, naming it, and for no other;
\* none was emitted before; every star is still in its slot until the
\* invocation, and when the invocation has returned each of them was fitted.
C8_NyquistNonFatal ==
    /\ Constructed =>
        /\ IdsOf(Events("warn")) = IdsOf(RowsAboveNyquist)
        /\ Len0(stars) = Len0(vardf)
    /\ ~Constructed => Len(Events("warn")) = 0
    /\ (Constructed /\ callNo = 0) =>
           \A n \in DOMAIN stars : stars[n] = Star(vardf[n])
    /\ Returned => IdSet(Events("warn")) \subseteq IdSet(Events("fit"))

\* Of two stars the first is above Nyquist and the second is not; one
\* warning was emitted, and both were fitted.
C8_Witness ==
    /\ Returned
    /\ Len0(vardf) = 2
    /\ vardf[0].numax > vardf[0].psd.f_last
    /\ ~(vardf[1].numax > vardf[1].psd.f_last)
    /\ IdsOf(Events("warn")) = <<vardf[0].ID>>
    /\ IdsOf(Events("fit")) = <<vardf[0].ID, vardf[1].ID>>

----------------------------------------------------------------------------
(* C9 *)

FitReturnedIds == IdSet(Succeeded(Events("fit")))

\* C9: self.stars keeps its length; a slot holds None exactly when the fit of
\* its star has returned, and otherwise still holds the star's FittingUnit
\* (before the fit, and after a fit that raised).
C9_SlotRelease ==
    Built =>
        /\ DOMAIN stars = 0..(Len(UnitIds) - 1)
        /\ \A n \in DOMAIN stars :
            /\ stars[n] = None <=> UnitIds[n + 1] \in FitReturnedIds
            /\ stars[n] # None => stars[n] = Star(vardf[n])

\* Three stars were fitted: the fit of the second raised and its slot still
\* holds it, the other two slots were released.
C9_Witness ==
    /\ Returned
    /\ Len0(stars) = 3
    /\ stars[0] = None
    /\ stars[1] # None
    /\ stars[2] = None
    /\ Len(Failed(Events("fit"))) = 1

----------------------------------------------------------------------------
(* C10 *)

\* C10: no batch invocation, the first or a later one, lets an exception out,
\* and no star whose fit returned is fitted again.
C10_RepeatedCallsIsolated ==
    /\ callNo >= 1 => (pc # "raised" /\ error = "none")
    /\ \A id \in FitReturnedIds :
           Len(SelectSeq(Events("fit"), LAMBDA e : e.ID = id)) = 1
====
